---- MODULE Spec2Model ----
(***************************************************************************)
(* A model of souffle's program minimisation pass                          *)
(* (src/ast/transform/MinimiseProgramTransformer.cpp): the permutation     *)
(* enumerator, the bijective-equivalence oracle, the four sub-passes and   *)
(* the driver.                                                             *)
(*                                                                         *)
(* AST values.  An argument is a record [kind, val] with kind one of       *)
(* "var", "str", "num", "nil", "other" ("other" stands for every argument  *)
(* that is neither a variable nor a constant).  A literal is a record      *)
(* [kind, name, args] with kind "atom" or "neg" (a negated atom).  A       *)
(* clause is [head, body]; a program is [relations, clauses], both in      *)
(* program order.  Structural equality of AST nodes is equality of these   *)
(* values.  Indices taken from the source (matrix rows and columns, the    *)
(* entries of a permutation) are 0-based as in the source; TLA+ sequences  *)
(* are 1-based, so vector element i of the source is sequence element i+1. *)
(***************************************************************************)
EXTENDS Integers, Sequences, FiniteSets, TLC

VARIABLES
    pc,                 \* position of the running operation
    permutationMatrix,  \* extractPermutations: its argument
    ep,                 \* extractPermutations: its local variables
    left, right,        \* areBijectivelyEquivalent: its arguments
    result,             \* areBijectivelyEquivalent: its return value
    input,              \* the program the translation unit held at the start
    program,            \* the translation unit's program
    ioTypes,            \* the IOType analysis: the names for which isIO holds
    changed,            \* transform: its local variable `changed`
    calls               \* the sub-pass calls made so far, oldest first

vars == <<pc, permutationMatrix, ep, left, right, result, input, program,
          ioTypes, changed, calls>>

\* The value of a variable that the running specification does not use.
Unused == "unused"

----------------------------------------------------------------------------
(* Sequence helpers *)

Range(s) == {s[i] : i \in DOMAIN s}

Last(s) == s[Len(s)]

Front(s) == SubSeq(s, 1, Len(s) - 1)

\* The sequences over S of length at most n.
SeqsUpTo(S, n) == UNION {[1..k -> S] : k \in 0..n}

\* The orders in which the elements 1..n can be visited.
Orders(n) == {p \in [1..n -> 1..n] : \A i, j \in 1..n : p[i] = p[j] => i = j}

----------------------------------------------------------------------------
(* extractPermutations, lines 47-135 *)

\* lines 49-60: the columns holding 1 in each row, in ascending order.
validMovesOf(matrix) ==
    LET clauseSize == Cardinality(DOMAIN matrix)
    IN  [i \in 0..(clauseSize - 1) |->
            SelectSeq([k \in 1..clauseSize |-> k - 1],
                      LAMBDA j : matrix[i][j] = 1)]

\* lines 63-70: the local variables before the loop.  broke records that a
\* break statement ended the loop; iterations counts the loop bodies run so far
\* (both are bookkeeping of the control flow, not variables of the source).
epInit(matrix) ==
    LET clauseSize == Cardinality(DOMAIN matrix)
    IN  [permutations       |-> <<>>,
         seen               |-> [i \in 0..(clauseSize - 1) |-> 0],
         currentPermutation |-> <<>>,
         todoStack          |-> <<validMovesOf(matrix)[0]>>,
         currentIdx         |-> 0,
         broke              |-> FALSE,
         iterations         |-> 0]

\* line 71: the loop runs while the stack is not empty and no break was taken.
epRunning(s) == ~s.broke /\ s.todoStack # <<>>

\* A faulty undo that leaves the removed number marked as seen.
epUndoKeepsSeen(s) ==
    [s EXCEPT !.currentIdx = s.currentIdx - 1,
              !.currentPermutation = Front(s.currentPermutation)]

\* lines 82-84 and 101-103: undo the last number added to the permutation.
epUndo(s) ==
    [s EXCEPT !.currentIdx = s.currentIdx - 1,
              !.seen = [s.seen EXCEPT ![s.currentPermutation[s.currentIdx]] = 0],
              !.currentPermutation = Front(s.currentPermutation)]

\* lines 72-88: the permutation is complete.
epComplete(s) ==
    LET rec == [s EXCEPT !.permutations = Append(s.permutations, s.currentPermutation),
                         !.iterations = s.iterations + 1]
    IN  IF s.currentIdx = 0 THEN [rec EXCEPT !.broke = TRUE] ELSE epUndo(rec)

\* lines 91-107: no possibility is left at this position.
epExhausted(s) ==
    LET popped == [s EXCEPT !.todoStack = Front(s.todoStack),
                            !.iterations = s.iterations + 1]
    IN  IF s.currentIdx = 0 THEN [popped EXCEPT !.broke = TRUE] ELSE epUndo(popped)

\* lines 110-118: the next possibility is already used in this permutation.
epSkip(s) ==
    LET possibilities == Last(s.todoStack)
    IN  [s EXCEPT !.todoStack = Append(Front(s.todoStack), Tail(possibilities)),
                  !.iterations = s.iterations + 1]

\* lines 110-130: the next possibility is taken.
epAdvance(s, validMoves) ==
    LET possibilities == Last(s.todoStack)
        nextNum       == Head(possibilities)
        clauseSize    == Cardinality(DOMAIN validMoves)
        pushed        == Append(Front(s.todoStack), Tail(possibilities))
        idx           == s.currentIdx + 1
    IN  [s EXCEPT !.seen = [s.seen EXCEPT ![nextNum] = 1],
                  !.currentPermutation = Append(s.currentPermutation, nextNum),
                  !.currentIdx = idx,
                  !.iterations = s.iterations + 1,
                  !.todoStack = IF idx < clauseSize
                                THEN Append(pushed, validMoves[idx])
                                ELSE pushed]

\* Which branch of the loop body runs in state s.
epAtComplete(s, clauseSize) == s.currentIdx = clauseSize
epAtExhausted(s, clauseSize) == s.currentIdx # clauseSize /\ Last(s.todoStack) = <<>>
epAtSkip(s, clauseSize) ==
    /\ s.currentIdx # clauseSize
    /\ Last(s.todoStack) # <<>>
    /\ s.seen[Head(Last(s.todoStack))] # 0
epAtAdvance(s, clauseSize) ==
    /\ s.currentIdx # clauseSize
    /\ Last(s.todoStack) # <<>>
    /\ s.seen[Head(Last(s.todoStack))] = 0

\* lines 71-131: one iteration of the loop.
epStep(s, validMoves) ==
    LET clauseSize == Cardinality(DOMAIN validMoves)
    IN  CASE epAtComplete(s, clauseSize)  -> epComplete(s)
          [] epAtExhausted(s, clauseSize) -> epExhausted(s)
          [] epAtSkip(s, clauseSize)      -> epSkip(s)
          [] OTHER                        -> epAdvance(s, validMoves)

RECURSIVE epLoop(_, _)
epLoop(s, validMoves) ==
    IF epRunning(s) THEN epLoop(epStep(s, validMoves), validMoves) ELSE s

\* lines 47-135: the permutations returned, in the order found.
extractPermutations(matrix) ==
    epLoop(epInit(matrix), validMovesOf(matrix)).permutations

----------------------------------------------------------------------------
(* AST values *)

Var(n) == [kind |-> "var", val |-> n]
Str(v) == [kind |-> "str", val |-> v]
Num(v) == [kind |-> "num", val |-> v]
Nil    == [kind |-> "nil", val |-> ""]
\* An argument that is neither a variable nor a constant (a functor, a record).
Other(v) == [kind |-> "other", val |-> v]

Atom(n, a)     == [kind |-> "atom", name |-> n, args |-> a]
Negation(n, a) == [kind |-> "neg", name |-> n, args |-> a]
Clause(h, b)   == [head |-> h, body |-> b]

\* line 206: the argument is an AstVariable.
isVariable(arg) == arg.kind = "var"

\* line 272: the argument is an AstConstant (string, numeric or nil).
isConstant(arg) == arg.kind \in {"str", "num", "nil"}

\* lines 234 and 236, castEq<T>: both arguments are of type T and are equal.
castEq(kind, leftArg, rightArg) ==
    leftArg.kind = kind /\ rightArg.kind = kind /\ leftArg = rightArg

\* The atoms of a clause that visitDepthFirst reaches: the head, and each body
\* literal's atom.
clauseLiterals(clause) == <<clause.head>> \o clause.body

\* lines 195, 296, 297: the names of the variables visitDepthFirst finds.
variableNames(clause) ==
    LET lits == clauseLiterals(clause)
    IN  UNION {{lits[i].args[j].val : j \in {k \in DOMAIN lits[i].args :
                                                isVariable(lits[i].args[k])}} :
               i \in DOMAIN lits}

----------------------------------------------------------------------------
(* isValidMove, lines 142-162 *)

isValidMove(l, leftIdx, r, rightIdx) ==
    IF leftIdx = 0 /\ rightIdx = 0
    THEN l.head.name = r.head.name
    ELSE IF leftIdx = 0 \/ rightIdx = 0
         THEN FALSE
         ELSE l.body[leftIdx].name = r.body[rightIdx].name

----------------------------------------------------------------------------
(* isValidPermutation, lines 167-250 *)

\* reorderAtoms (ast/AstUtils): position i of the body holds atom newOrder[i]
\* of the given clause (lines 180-181); newOrder is a vector of 0-based indices.
reorderAtoms(clause, newOrder) ==
    [clause EXCEPT !.body = [i \in 1..Len(clause.body) |->
                                clause.body[newOrder[i] + 1]]]

\* lines 174-177: the body part of the clause permutation, shifted down by one.
bodyPermutationOf(permutation) ==
    [i \in 1..(Len(permutation) - 1) |-> permutation[i + 1] - 1]

\* The body permutation handed to reorderAtoms as it is, without the
\* rearrangement of lines 184-187.
reorderedPermutationAsGiven(bodyPermutation) == bodyPermutation

\* lines 184-187: reorderedPermutation[bodyPermutation[i]] = i.
reorderedPermutationOf(bodyPermutation) ==
    [k \in 1..Len(bodyPermutation) |->
        (CHOOSE i \in 1..Len(bodyPermutation) : bodyPermutation[i] = k - 1) - 1]

\* lines 169-190: the reordered clone of the left clause.
reorderedLeftOf(l, permutation) ==
    reorderAtoms(l, reorderedPermutationOf(bodyPermutationOf(permutation)))

\* lines 216-245: the loop over the arguments of one pair of atoms, from
\* argument j on.  m is [variableMap, validMapping]; a break leaves the loop
\* with validMapping false, as does running off the end with it false.
RECURSIVE matchArguments(_, _, _, _)
matchArguments(leftArgs, rightArgs, j, m) ==
    IF j > Len(leftArgs) THEN m
    ELSE
      LET leftArg  == leftArgs[j]
          rightArg == rightArgs[j]
      IN  IF isVariable(leftArg) /\ isVariable(rightArg)
          THEN LET currentMap == m.variableMap[leftArg.val]
               IN  IF currentMap = ""
                   THEN matchArguments(leftArgs, rightArgs, j + 1,
                            [m EXCEPT !.variableMap[leftArg.val] = rightArg.val])
                   ELSE IF currentMap # rightArg.val
                        THEN [m EXCEPT !.validMapping = FALSE]
                        ELSE matchArguments(leftArgs, rightArgs, j + 1, m)
          ELSE IF castEq("str", leftArg, rightArg)
          THEN matchArguments(leftArgs, rightArgs, j + 1,
                              [m EXCEPT !.validMapping = TRUE])
          ELSE IF castEq("num", leftArg, rightArg)
          THEN matchArguments(leftArgs, rightArgs, j + 1,
                              [m EXCEPT !.validMapping = TRUE])
          ELSE IF leftArg.kind = "nil"
          THEN matchArguments(leftArgs, rightArgs, j + 1,
                              [m EXCEPT !.validMapping = (rightArg.kind = "nil")])
          ELSE [m EXCEPT !.validMapping = FALSE]

\* lines 208-246: the loop over the pairs of atoms, from pair i on; it stops
\* as soon as validMapping is false.
RECURSIVE matchAtoms(_, _, _, _)
matchAtoms(leftAtoms, rightAtoms, i, m) ==
    IF i > Len(leftAtoms) \/ ~m.validMapping THEN m
    ELSE matchAtoms(leftAtoms, rightAtoms, i + 1,
                    matchArguments(leftAtoms[i].args, rightAtoms[i].args, 1, m))

\* lines 194-246: the variable map and the flag the checker ends with.
variableMapping(l, r, permutation) ==
    LET reorderedLeft == reorderedLeftOf(l, permutation)
        leftAtoms     == Append(reorderedLeft.body, reorderedLeft.head)
        rightAtoms    == Append(r.body, r.head)
    IN  matchAtoms(leftAtoms, rightAtoms, 1,
                   [variableMap  |-> [v \in variableNames(reorderedLeft) |-> ""],
                    validMapping |-> TRUE])

\* lines 167-250
isValidPermutation(l, r, permutation) ==
    variableMapping(l, r, permutation).validMapping

----------------------------------------------------------------------------
(* areBijectivelyEquivalent, lines 255-331 *)

\* lines 257-277
isValidClause(clause) ==
    /\ \A i \in DOMAIN clause.body : clause.body[i].kind = "atom"
    /\ \A i \in DOMAIN clauseLiterals(clause) :
          \A j \in DOMAIN clauseLiterals(clause)[i].args :
             LET arg == clauseLiterals(clause)[i].args[j]
             IN  isVariable(arg) \/ isConstant(arg)

\* line 311: the entry for the two heads.
headEntry(l, r) == 1

\* lines 304-318: the permutation matrix of two clauses of the same length.
permutationMatrixOf(l, r) ==
    LET size == Len(l.body) + 1
    IN  [i \in 0..(size - 1) |-> [j \in 0..(size - 1) |->
            IF i = 0 /\ j = 0 THEN headEntry(l, r)
            ELSE IF i >= 1 /\ j >= 1 /\ isValidMove(l, i, r, j) THEN 1
            ELSE 0]]

\* lines 255-331
areBijectivelyEquivalent(l, r) ==
    IF ~isValidClause(l) \/ ~isValidClause(r) THEN FALSE
    ELSE IF Len(l.body) # Len(r.body) THEN FALSE
    ELSE IF Len(l.head.args) # Len(r.head.args) THEN FALSE
    ELSE IF Cardinality(variableNames(l)) # Cardinality(variableNames(r)) THEN FALSE
    ELSE LET permutations == extractPermutations(permutationMatrixOf(l, r))
         IN  \E k \in DOMAIN permutations : isValidPermutation(l, r, permutations[k])

----------------------------------------------------------------------------
(* AstProgram and the AstUtils helpers the passes call *)

\* getClauses(program, rel): the clauses whose head names the relation, in
\* program order.
getClauses(prog, relName) ==
    SelectSeq(prog.clauses, LAMBDA c : c.head.name = relName)

\* AstProgram::removeClause: the first clause structurally equal to the given
\* one is removed; without one the program is left as it is.
removeClause(prog, clause) ==
    IF \E i \in DOMAIN prog.clauses : prog.clauses[i] = clause
    THEN LET first == CHOOSE i \in DOMAIN prog.clauses :
                         /\ prog.clauses[i] = clause
                         /\ \A j \in 1..(i - 1) : prog.clauses[j] # clause
         IN  [prog EXCEPT !.clauses = SubSeq(prog.clauses, 1, first - 1) \o
                                      SubSeq(prog.clauses, first + 1, Len(prog.clauses))]
    ELSE prog

\* AstProgram::addClause: the clause is appended.
addClause(prog, clause) == [prog EXCEPT !.clauses = Append(prog.clauses, clause)]

\* AstProgram::removeRelation: the declaration of that name is removed.
removeRelation(prog, relName) ==
    [prog EXCEPT !.relations = SelectSeq(prog.relations, LAMBDA n : n # relName)]

\* removeClause for each clause of a sequence, first to last.
RECURSIVE removeClauses(_, _)
removeClauses(prog, clauses) ==
    IF clauses = <<>> THEN prog
    ELSE removeClauses(removeClause(prog, Head(clauses)), Tail(clauses))

\* addClause for each clause of a sequence, first to last.
RECURSIVE addClauses(_, _)
addClauses(prog, clauses) ==
    IF clauses = <<>> THEN prog
    ELSE addClauses(addClause(prog, Head(clauses)), Tail(clauses))

\* The order in which a std::set of pointers is iterated is the order of the
\* addresses, which the build does not fix: every order of s can be the one.
PointerOrders(s) == {[i \in 1..Len(s) |-> s[p[i]]] : p \in Orders(Len(s))}

\* What a sub-pass leaves: the program, its return value and (for
\* reduceSingletonRelations) the canonicalName map it built.
Outcome(prog, ret, canonicalName) ==
    [program |-> prog, ret |-> ret, canonicalName |-> canonicalName]

NoNames == [n \in {} |-> ""]

----------------------------------------------------------------------------
(* reduceClauseBodies, lines 501-539 *)

\* lines 508-516: the positions (1-based here) put into redundantPositions.
redundantPositionsOf(bodyLiterals) ==
    {j \in DOMAIN bodyLiterals :
        \E i \in DOMAIN bodyLiterals :
            /\ j < i
            /\ bodyLiterals[i] = bodyLiterals[j]
            /\ \A k \in 1..(j - 1) : bodyLiterals[i] # bodyLiterals[k]}

\* The elements of s at the positions in keep, in order.
RECURSIVE atPositions(_, _, _)
atPositions(s, keep, i) ==
    IF i > Len(s) THEN <<>>
    ELSE (IF i \in keep THEN <<s[i]>> ELSE <<>>) \o atPositions(s, keep, i + 1)

\* lines 519-525
minimisedClauseOf(clause) ==
    Clause(clause.head,
           atPositions(clause.body,
                       DOMAIN clause.body \ redundantPositionsOf(clause.body), 1))

\* lines 501-539
reduceClauseBodies(prog) ==
    LET reducible    == SelectSeq(prog.clauses,
                            LAMBDA c : redundantPositionsOf(c.body) # {})
        minimised    == [i \in DOMAIN reducible |-> minimisedClauseOf(reducible[i])]
    IN  {Outcome(addClauses(removeClauses(prog, toRemove), toAdd),
                 minimised # <<>>, NoNames) :
            toRemove \in PointerOrders(reducible),
            toAdd \in PointerOrders(minimised)}

----------------------------------------------------------------------------
(* removeRedundantClauses, lines 472-495 *)

\* lines 474-482
isRedundant(clause) ==
    \E i \in DOMAIN clause.body : clause.head = clause.body[i]

\* lines 472-495
removeRedundantClauses(prog) ==
    LET redundant == SelectSeq(prog.clauses, isRedundant)
    IN  {Outcome(removeClauses(prog, toRemove), redundant # <<>>, NoNames) :
            toRemove \in PointerOrders(redundant)}

----------------------------------------------------------------------------
(* reduceLocallyEquivalentClauses, lines 339-379 *)

\* lines 349-369: the clauses of one relation are taken in order; representatives
\* holds eqClass[0] of every class so far and toDelete the clauses marked.
RECURSIVE classifyClauses(_, _, _)
classifyClauses(clauses, representatives, toDelete) ==
    IF clauses = <<>> THEN toDelete
    ELSE LET clause == Head(clauses)
             added  == \E k \in DOMAIN representatives :
                          areBijectivelyEquivalent(representatives[k], clause)
         IN  IF added
             THEN classifyClauses(Tail(clauses), representatives,
                                  Append(toDelete, clause))
             ELSE classifyClauses(Tail(clauses), Append(representatives, clause),
                                  toDelete)

\* lines 342-370: clausesToDelete, relation after relation.
RECURSIVE clausesToDeleteOf(_, _)
clausesToDeleteOf(prog, relations) ==
    IF relations = <<>> THEN <<>>
    ELSE classifyClauses(getClauses(prog, Head(relations)), <<>>, <<>>) \o
         clausesToDeleteOf(prog, Tail(relations))

\* lines 339-379
reduceLocallyEquivalentClauses(prog) ==
    LET clausesToDelete == clausesToDeleteOf(prog, prog.relations)
    IN  {Outcome(removeClauses(prog, clausesToDelete), clausesToDelete # <<>>,
                 NoNames)}

----------------------------------------------------------------------------
(* reduceSingletonRelations, lines 387-466 *)

\* line 396: isIO(rel) of the IOType analysis.
isIO(io, relName) == relName \in io

\* The singleton clauses gathered without the isIO test of line 396.
singletonRelationClausesIgnoringIO(prog, io) ==
    LET singles == SelectSeq(prog.relations,
                       LAMBDA n : Len(getClauses(prog, n)) = 1)
    IN  [i \in DOMAIN singles |-> getClauses(prog, singles[i])[1]]

\* lines 393-400
singletonRelationClausesOf(prog, io) ==
    LET singles == SelectSeq(prog.relations,
                       LAMBDA n : ~isIO(io, n) /\ Len(getClauses(prog, n)) = 1)
    IN  [i \in DOMAIN singles |-> getClauses(prog, singles[i])[1]]

\* line 424: std::map::insert keeps the value of a key that is already there.
mapInsert(map, key, value) ==
    IF key \in DOMAIN map THEN map
    ELSE [k \in DOMAIN map \cup {key} |-> IF k = key THEN value ELSE map[k]]

\* The inner loop leaving at the first equivalent clause it finds.
RECURSIVE comparePairsFirstMatch(_, _, _, _)
comparePairsFirstMatch(singles, i, j, s) ==
    IF j > Len(singles) THEN s
    ELSE IF areBijectivelyEquivalent(singles[i], singles[j])
         THEN [redundantClauses |-> s.redundantClauses \cup {j},
               canonicalName    |-> mapInsert(s.canonicalName,
                                              singles[j].head.name,
                                              singles[i].head.name)]
         ELSE comparePairsFirstMatch(singles, i, j + 1, s)

\* lines 416-426: the inner loop for clause i, from clause j on.  s is
\* [redundantClauses, canonicalName]; redundantClauses holds the positions in
\* singles of the clauses found redundant.
RECURSIVE comparePairs(_, _, _, _)
comparePairs(singles, i, j, s) ==
    IF j > Len(singles) THEN s
    ELSE IF areBijectivelyEquivalent(singles[i], singles[j])
         THEN comparePairs(singles, i, j + 1,
                  [redundantClauses |-> s.redundantClauses \cup {j},
                   canonicalName    |-> mapInsert(s.canonicalName,
                                                  singles[j].head.name,
                                                  singles[i].head.name)])
         ELSE comparePairs(singles, i, j + 1, s)

\* lines 409-427: the outer loop, from clause i on.
RECURSIVE compareSingletons(_, _, _)
compareSingletons(singles, i, s) ==
    IF i > Len(singles) THEN s
    ELSE IF i \in s.redundantClauses
         THEN compareSingletons(singles, i + 1, s)
         ELSE compareSingletons(singles, i + 1, comparePairs(singles, i, i + 1, s))

\* lines 430-436: each redundant clause is removed, and its relation with it.
RECURSIVE removeRedundantRelations(_, _)
removeRedundantRelations(prog, clauses) ==
    IF clauses = <<>> THEN prog
    ELSE removeRedundantRelations(
             removeRelation(removeClause(prog, Head(clauses)), Head(clauses).head.name),
             Tail(clauses))

\* The renaming that passes over the atom inside a negation.
renameAtomsOnly(canonicalName, lit) ==
    IF lit.kind = "atom" /\ lit.name \in DOMAIN canonicalName
    THEN [lit EXCEPT !.name = canonicalName[lit.name]]
    ELSE lit

\* lines 445-459: an atom whose name is a key of the map gets the mapped name;
\* the mapper reaches every atom, the atom inside a negation included.
renameLiteral(canonicalName, lit) ==
    IF lit.name \in DOMAIN canonicalName
    THEN [lit EXCEPT !.name = canonicalName[lit.name]]
    ELSE lit

\* lines 461-462: the mapper applied to the whole program.
replaceRedundantRelations(prog, canonicalName) ==
    [prog EXCEPT !.clauses =
        [i \in DOMAIN prog.clauses |->
            Clause(renameLiteral(canonicalName, prog.clauses[i].head),
                   [k \in DOMAIN prog.clauses[i].body |->
                       renameLiteral(canonicalName, prog.clauses[i].body[k])])]]

\* lines 387-466
reduceSingletonRelations(prog, io) ==
    LET singles   == singletonRelationClausesOf(prog, io)
        found     == compareSingletons(singles, 1,
                         [redundantClauses |-> {}, canonicalName |-> NoNames])
        redundant == atPositions(singles, found.redundantClauses, 1)
    IN  {Outcome(replaceRedundantRelations(removeRedundantRelations(prog, toRemove),
                                           found.canonicalName),
                 DOMAIN found.canonicalName # {}, found.canonicalName) :
            toRemove \in PointerOrders(redundant)}

----------------------------------------------------------------------------
(* MinimiseProgramTransformer::transform, lines 541-548 *)

\* `changed = x` in place of `changed |= x`.
assignFlag(flag, ret) == ret

\* lines 543-546: `changed |= x`.
orAssign(flag, ret) == flag \/ ret

\* The record kept of one sub-pass call: the pass, the program it was given,
\* the program it left, what it returned and the canonicalName map it built.
Call(pass, before, outcome) ==
    [pass          |-> pass,
     before        |-> before,
     after         |-> outcome.program,
     ret           |-> outcome.ret,
     canonicalName |-> outcome.canonicalName]

\* The programs over a sequence of relation names with at most n clauses out
\* of a pool.
ProgramsOf(relations, pool, n) ==
    {[relations |-> relations, clauses |-> cs] : cs \in SeqsUpTo(pool, n)}

DriverOther == UNCHANGED <<permutationMatrix, ep, left, right, ioTypes, input>>

\* line 542
InitTransform(programs, ios) ==
    /\ input \in programs
    /\ program = input
    /\ ioTypes \in ios
    /\ changed = FALSE
    /\ calls = <<>>
    /\ result = Unused
    /\ pc = "reduceClauseBodies"
    /\ permutationMatrix = Unused /\ ep = Unused
    /\ left = Unused /\ right = Unused

\* One line of transform: the sub-pass runs on the program and its return
\* value is or-ed into changed.
TransformLine(pass, outcomes, next) ==
    /\ pc = pass
    /\ \E o \in outcomes :
          /\ program' = o.program
          /\ changed' = orAssign(changed, o.ret)
          /\ calls' = Append(calls, Call(pass, program, o))
    /\ pc' = next
    /\ UNCHANGED result /\ DriverOther

\* line 543
TransformReduceClauseBodies ==
    TransformLine("reduceClauseBodies", reduceClauseBodies(program),
                  "removeRedundantClauses")

\* line 544
TransformRemoveRedundantClauses ==
    TransformLine("removeRedundantClauses", removeRedundantClauses(program),
                  "reduceLocallyEquivalentClauses")

\* line 545
TransformReduceLocallyEquivalentClauses ==
    TransformLine("reduceLocallyEquivalentClauses",
                  reduceLocallyEquivalentClauses(program),
                  "reduceSingletonRelations")

\* line 546
TransformReduceSingletonRelations ==
    TransformLine("reduceSingletonRelations",
                  reduceSingletonRelations(program, ioTypes), "return")

\* line 547
TransformReturn ==
    /\ pc = "return"
    /\ result' = changed
    /\ pc' = "returned"
    /\ UNCHANGED <<program, changed, calls>> /\ DriverOther

Next ==
    \/ TransformReduceClauseBodies
    \/ TransformRemoveRedundantClauses
    \/ TransformReduceLocallyEquivalentClauses
    \/ TransformReduceSingletonRelations
    \/ TransformReturn

----------------------------------------------------------------------------
(* transform run on every program of a bounded family.                      *)

MaxDriverBody == 2
MaxDriverClauses == 2

DriverRelations == <<"A", "B", "C">>

DriverLiterals == {Atom("B", <<Var("x")>>)}

DriverClauses ==
    {Clause(Atom(n, <<Var("x")>>), b) :
        n \in Range(DriverRelations), b \in SeqsUpTo(DriverLiterals, MaxDriverBody)}

DriverPrograms == ProgramsOf(DriverRelations, DriverClauses, MaxDriverClauses)

Init == InitTransform(DriverPrograms, SUBSET {"C"})

Spec == Init /\ [][Next]_vars

PassOrder ==
    <<"reduceClauseBodies", "removeRedundantClauses",
      "reduceLocallyEquivalentClauses", "reduceSingletonRelations">>

\* What the named sub-pass can leave when run on prog.
PassOutcomes(pass, prog, io) ==
    CASE pass = "reduceClauseBodies"             -> reduceClauseBodies(prog)
      [] pass = "removeRedundantClauses"         -> removeRedundantClauses(prog)
      [] pass = "reduceLocallyEquivalentClauses" -> reduceLocallyEquivalentClauses(prog)
      [] pass = "reduceSingletonRelations"       -> reduceSingletonRelations(prog, io)

\* C10: one call of transform runs the four sub-passes once each in the order
\* Body Deduplicator, Self-Implication Filter, Local Equivalence Reducer,
\* Singleton Relation Unifier, each on the program the previous one left and
\* each whatever the earlier ones returned, and returns true exactly when one
\* of the four returned true.
C10_TransformRunsEachPassOnceInOrder ==
    /\ Len(calls) <= Len(PassOrder)
    /\ \A k \in DOMAIN calls :
          /\ calls[k].pass = PassOrder[k]
          /\ calls[k].before = (IF k = 1 THEN input ELSE calls[k - 1].after)
          /\ \E o \in PassOutcomes(calls[k].pass, calls[k].before, ioTypes) :
                o.program = calls[k].after /\ o.ret = calls[k].ret
    /\ pc \in {"return", "returned"} =>
          (Len(calls) = Len(PassOrder) /\ program = calls[Len(calls)].after)
    /\ pc = "returned" => (result = (\E k \in DOMAIN calls : calls[k].ret))

\* transform has returned true after a run in which the first and the third
\* sub-pass changed the program and the last one did not.
C10_Witness ==
    /\ pc = "returned"
    /\ result = TRUE
    /\ calls[1].ret /\ calls[3].ret /\ ~calls[4].ret

----------------------------------------------------------------------------
(* One sub-pass called on its own on every program of a bounded family.     *)

HarnessOther == UNCHANGED <<permutationMatrix, ep, left, right, ioTypes, input,
                            changed, result>>

InitHarness(programs, ios) ==
    /\ input \in programs
    /\ program = input
    /\ ioTypes \in ios
    /\ calls = <<>>
    /\ pc = "call"
    /\ changed = Unused /\ result = Unused
    /\ permutationMatrix = Unused /\ ep = Unused
    /\ left = Unused /\ right = Unused

\* The sub-pass is called on the program and returns; at most runs calls are
\* made, each on the program the one before left.
CallPass(pass, outcomes, runs) ==
    /\ pc = "call"
    /\ \E o \in outcomes :
          /\ program' = o.program
          /\ calls' = Append(calls, Call(pass, program, o))
    /\ pc' = IF Len(calls) + 1 < runs THEN "call" ELSE "returned"
    /\ HarnessOther

----------------------------------------------------------------------------
(* reduceClauseBodies called once. *)

MaxBodiesBody == 3
MaxBodiesClauses == 2

BodiesLiterals ==
    {Atom("B", <<Var("x")>>), Atom("C", <<Var("x")>>), Negation("B", <<Var("x")>>)}

BodiesClauses ==
    {Clause(Atom("A", <<Var("x")>>), b) : b \in SeqsUpTo(BodiesLiterals, MaxBodiesBody)}

InitBodies ==
    InitHarness(ProgramsOf(<<"A", "B", "C">>, BodiesClauses, MaxBodiesClauses), {{}})

CallReduceClauseBodies ==
    CallPass("reduceClauseBodies", reduceClauseBodies(program), 1)

NextBodies == CallReduceClauseBodies

SpecBodies == InitBodies /\ [][NextBodies]_vars

\* The literals of a body that are not structurally equal to an earlier one, in
\* their order.
FirstOccurrences(body) ==
    atPositions(body, {i \in DOMAIN body : \A j \in 1..(i - 1) : body[j] # body[i]}, 1)

\* How many elements of s satisfy Test.
CountOf(s, Test(_)) == Cardinality({i \in DOMAIN s : Test(s[i])})

\* C4: after the Body Deduplicator has run, every clause of the input is there
\* with its head unchanged and with the first occurrences of its distinct body
\* literals, in their original order, as its body: the clauses of the program
\* are, clause for clause, the input's clauses so reduced.
C4_BodiesReducedToFirstOccurrences ==
    pc = "returned" =>
        LET Reduced(c) == Clause(c.head, FirstOccurrences(c.body))
        IN  \A v \in Range(program.clauses) \cup
                     {Reduced(input.clauses[i]) : i \in DOMAIN input.clauses} :
               CountOf(program.clauses, LAMBDA c : c = v) =
               CountOf(input.clauses, LAMBDA c : Reduced(c) = v)

----------------------------------------------------------------------------
(* reduceLocallyEquivalentClauses called once. *)

MaxLocalClauses == 3

LocalHeads == {Atom("A", <<Var("x")>>), Atom("A", <<Var("y")>>), Atom("B", <<Var("x")>>)}

LocalBodies ==
    {<<>>,
     <<Atom("B", <<Var("x")>>)>>,
     <<Atom("B", <<Var("y")>>)>>,
     <<Negation("B", <<Var("x")>>)>>}

LocalClauses == {Clause(h, b) : h \in LocalHeads, b \in LocalBodies}

InitLocal ==
    InitHarness(ProgramsOf(<<"A", "B">>, LocalClauses, MaxLocalClauses), {{}})

CallReduceLocallyEquivalentClauses ==
    CallPass("reduceLocallyEquivalentClauses",
             reduceLocallyEquivalentClauses(program), 1)

NextLocal == CallReduceLocallyEquivalentClauses

SpecLocal == InitLocal /\ [][NextLocal]_vars

\* The positions of the clauses that stay when a clause goes exactly if the
\* oracle declares it equivalent to an earlier clause of its relation that
\* stays: decided position after position, retained being those kept so far.
RECURSIVE RetainedPositions(_, _, _)
RetainedPositions(clauses, i, retained) ==
    IF i > Len(clauses) THEN retained
    ELSE IF \E j \in retained :
               /\ clauses[j].head.name = clauses[i].head.name
               /\ areBijectivelyEquivalent(clauses[j], clauses[i])
         THEN RetainedPositions(clauses, i + 1, retained)
         ELSE RetainedPositions(clauses, i + 1, retained \cup {i})

\* C5: after the Local Equivalence Reducer has run, the clauses deleted are
\* exactly those the oracle declares equivalent to an earlier retained clause
\* of the same relation, so that the first clause in program order of each
\* class is the one that stays, where it was; a clause that fails the
\* admissibility precheck stays, and the pass returns true exactly when it
\* deleted a clause.
C5_FirstOfEachClassRetained ==
    pc = "returned" =>
        LET retained == RetainedPositions(input.clauses, 1, {})
        IN  /\ program.clauses = atPositions(input.clauses, retained, 1)
            /\ program.relations = input.relations
            /\ calls[1].ret = (retained # DOMAIN input.clauses)
            /\ \A i \in DOMAIN input.clauses :
                  ~isValidClause(input.clauses[i]) => i \in retained

----------------------------------------------------------------------------
(* reduceSingletonRelations called twice in succession. *)

MaxSingletonClauses == 3

SingletonRelations == <<"A", "B", "C">>

SingletonHeads == {Atom(n, <<Var("x")>>) : n \in Range(SingletonRelations)}

SingletonBodies ==
    {<<>>,
     <<Atom("A", <<Var("x")>>)>>,
     <<Atom("B", <<Var("x")>>)>>,
     <<Negation("B", <<Var("x")>>)>>}

SingletonClauses == {Clause(h, b) : h \in SingletonHeads, b \in SingletonBodies}

InitSingleton ==
    InitHarness(ProgramsOf(SingletonRelations, SingletonClauses, MaxSingletonClauses),
                SUBSET Range(SingletonRelations))

CallReduceSingletonRelations ==
    CallPass("reduceSingletonRelations",
             reduceSingletonRelations(program, ioTypes), 2)

NextSingleton == CallReduceSingletonRelations

SpecSingleton == InitSingleton /\ [][NextSingleton]_vars

\* The call left the program as it found it and said so.
NoOp(call) ==
    /\ ~call.ret
    /\ call.canonicalName = NoNames
    /\ call.after = call.before

\* The relation names of the atoms of a program, heads and bodies.
namesIn(prog) ==
    {lit.name : lit \in UNION {Range(clauseLiterals(c)) : c \in Range(prog.clauses)}}

\* The clauses a call kept, as they were before the call renamed their atoms.
keptClauses(call) ==
    SelectSeq(call.before.clauses,
              LAMBDA c : c.head.name \notin DOMAIN call.canonicalName)

\* C6 as stated: the second of two successive runs of the Singleton Relation
\* Unifier records no canonical name, removes nothing, renames nothing and
\* returns false, whatever the first run did.
C6_SecondRunIsNoOp ==
    pc = "returned" => NoOp(calls[2])

\* The first run left every singleton clause it kept as it was: its renaming
\* changed no atom of a clause the second run compares.
SurvivorsUntouched ==
    Range(singletonRelationClausesOf(calls[1].after, ioTypes))
        \subseteq Range(singletonRelationClausesOf(calls[1].before, ioTypes))

\* C6 amended: the second of two successive runs of the Singleton Relation
\* Unifier is a no-op provided the renaming of the first run changed no
\* clause among the singleton clauses it kept; when the renaming changed the
\* body of such a clause the second run may find it equivalent to another
\* and unify again.
C6_SecondRunIsNoOpWhenSurvivorsUntouched ==
    (pc = "returned" /\ SurvivorsUntouched) => NoOp(calls[2])

\* The first run removed a relation and renamed an atom of a clause it kept,
\* not a singleton clause, and the second run had nothing left to do.
C6_Witness ==
    /\ pc = "returned"
    /\ calls[1].ret
    /\ calls[1].after.clauses # keptClauses(calls[1])
    /\ SurvivorsUntouched
    /\ NoOp(calls[2])

\* C7: if every atom names a declared relation before the Singleton Relation
\* Unifier runs, then after it every atom, in a head or a body, negated or
\* not, names a declared relation; every canonical name is a relation still
\* declared and is not itself a key of the map; and the relations removed are
\* exactly the keys of the map, each a relation with one clause, removed
\* together with that clause.
C7_NoAtomNamesRemovedRelation ==
    \A k \in DOMAIN calls :
        LET before == calls[k].before
            after  == calls[k].after
            names  == calls[k].canonicalName
        IN  namesIn(before) \subseteq Range(before.relations) =>
              /\ namesIn(after) \subseteq Range(after.relations)
              /\ \A r \in DOMAIN names :
                    /\ names[r] \notin DOMAIN names
                    /\ names[r] \in Range(after.relations)
              /\ Range(before.relations) \ Range(after.relations) = DOMAIN names
              /\ \A r \in DOMAIN names :
                    /\ Len(getClauses(before, r)) = 1
                    /\ Len(getClauses(after, r)) = 0
              /\ Len(after.clauses) = Len(keptClauses(calls[k]))

\* A run removed a relation that a negated body literal of a kept clause named.
C7_Witness ==
    \E k \in DOMAIN calls :
        /\ calls[k].ret
        /\ \E c \in Range(keptClauses(calls[k])) : \E lit \in Range(c.body) :
              /\ lit.kind = "neg"
              /\ lit.name \in DOMAIN calls[k].canonicalName

\* C8: a relation for which isIO holds is still declared after the Singleton
\* Relation Unifier has run, its clauses are those it had, it is neither a
\* key nor a value of the canonical-name map, and an atom names it after the
\* run exactly where an atom named it before.
C8_IORelationsUntouched ==
    \A k \in DOMAIN calls :
        LET before == calls[k].before
            after  == calls[k].after
            names  == calls[k].canonicalName
            kept   == keptClauses(calls[k])
        IN  \A r \in Range(before.relations) : isIO(ioTypes, r) =>
              /\ r \in Range(after.relations)
              /\ r \notin DOMAIN names
              /\ \A q \in DOMAIN names : names[q] # r
              /\ Len(getClauses(after, r)) = Len(getClauses(before, r))
              /\ Len(after.clauses) = Len(kept)
              /\ \A i \in DOMAIN kept :
                    LET old == clauseLiterals(kept[i])
                        new == clauseLiterals(after.clauses[i])
                    IN  /\ Len(new) = Len(old)
                        /\ \A p \in DOMAIN old :
                              (new[p].name = r) <=> (old[p].name = r)

\* A run unified two relations while an I/O relation with one clause had a
\* clause equivalent to theirs.
C8_Witness ==
    \E k \in DOMAIN calls :
        /\ calls[k].ret
        /\ \E r \in Range(calls[k].before.relations) :
              /\ isIO(ioTypes, r)
              /\ Len(getClauses(calls[k].before, r)) = 1
              /\ \E q \in DOMAIN calls[k].canonicalName :
                    areBijectivelyEquivalent(
                        getClauses(calls[k].before, r)[1],
                        getClauses(calls[k].before, q)[1])

----------------------------------------------------------------------------
(* transform run on positive programs whose tuples are computed.            *)

MaxSemClauses == 3

SemRelations == <<"A", "B", "Q">>

SemClauses ==
    {Clause(Atom("A", <<Nil, Num(1)>>),      <<Atom("Q", <<Var("x")>>)>>),
     Clause(Atom("A", <<Var("x"), Num(1)>>), <<Atom("Q", <<Var("x")>>)>>),
     Clause(Atom("B", <<Nil, Num(1)>>),      <<Atom("Q", <<Var("x")>>)>>),
     Clause(Atom("B", <<Var("x"), Num(1)>>), <<Atom("Q", <<Var("x")>>)>>),
     Clause(Atom("A", <<Var("x"), Num(1)>>), <<Atom("B", <<Var("x"), Num(1)>>)>>),
     Clause(Atom("Q", <<Var("x")>>),         <<Atom("A", <<Var("x"), Num(1)>>)>>),
     Clause(Atom("Q", <<Num(1)>>),           <<>>)}

InitSem ==
    InitTransform(ProgramsOf(SemRelations, SemClauses, MaxSemClauses),
                  SUBSET {"A"})

SpecSem == InitSem /\ [][Next]_vars

\* The values a variable may take: the constants of the programs.
SemValues == {Nil, Num(1)}

\* The tuple an atom stands for under a valuation of the variables.
tupleOf(atom, valuation) ==
    [j \in DOMAIN atom.args |->
        IF isVariable(atom.args[j]) THEN valuation[atom.args[j].val]
        ELSE atom.args[j]]

\* The head tuples a clause derives in one step from the tuples in known.
consequencesOf(clause, known) ==
    {tupleOf(clause.head, v) :
        v \in {w \in [variableNames(clause) -> SemValues] :
                  \A k \in DOMAIN clause.body :
                     tupleOf(clause.body[k], w) \in known[clause.body[k].name]}}

\* One round of derivation with every clause of the program.
derive(prog, known) ==
    [r \in DOMAIN known |->
        known[r] \cup UNION {consequencesOf(c, known) :
                                c \in {d \in Range(prog.clauses) : d.head.name = r}}]

RECURSIVE leastFixpoint(_, _)
leastFixpoint(prog, known) ==
    LET next == derive(prog, known)
    IN  IF next = known THEN known ELSE leastFixpoint(prog, next)

\* The tuples each relation derives in a positive program.
Tuples(prog) == leastFixpoint(prog, [r \in Range(SemRelations) |-> {}])

\* C2: one run of transform preserves the derivable tuples: every relation
\* still declared afterwards derives the tuples it derived before, and every
\* relation the Singleton Relation Unifier removed derived, before the run,
\* the tuples of the canonical relation its references were rewritten to.
C2_TransformPreservesTuples ==
    pc = "returned" =>
        LET before == Tuples(input)
            after  == Tuples(program)
            names  == calls[4].canonicalName
        IN  /\ \A r \in Range(program.relations) : after[r] = before[r]
            /\ \A r \in DOMAIN names : before[r] = before[names[r]]

----------------------------------------------------------------------------
(* The enumerator run step by step on every 0/1 matrix of a bounded size. *)

MaxSize == 3

Matrices ==
    UNION {[0..(n - 1) -> [0..(n - 1) -> {0, 1}]] : n \in 1..MaxSize}

InitPerm ==
    /\ permutationMatrix \in Matrices
    /\ ep = epInit(permutationMatrix)
    /\ pc = "loop"
    /\ left = Unused /\ right = Unused /\ result = Unused
    /\ input = Unused /\ program = Unused /\ ioTypes = Unused
    /\ changed = Unused /\ calls = Unused

EPOther == UNCHANGED <<permutationMatrix, left, right, result, input, program,
                       ioTypes, changed, calls>>

EPComplete ==
    /\ pc = "loop" /\ epRunning(ep)
    /\ epAtComplete(ep, Cardinality(DOMAIN permutationMatrix))
    /\ ep' = epComplete(ep)
    /\ UNCHANGED pc /\ EPOther

EPExhausted ==
    /\ pc = "loop" /\ epRunning(ep)
    /\ epAtExhausted(ep, Cardinality(DOMAIN permutationMatrix))
    /\ ep' = epExhausted(ep)
    /\ UNCHANGED pc /\ EPOther

EPSkip ==
    /\ pc = "loop" /\ epRunning(ep)
    /\ epAtSkip(ep, Cardinality(DOMAIN permutationMatrix))
    /\ ep' = epSkip(ep)
    /\ UNCHANGED pc /\ EPOther

EPAdvance ==
    /\ pc = "loop" /\ epRunning(ep)
    /\ epAtAdvance(ep, Cardinality(DOMAIN permutationMatrix))
    /\ ep' = epAdvance(ep, validMovesOf(permutationMatrix))
    /\ UNCHANGED pc /\ EPOther

\* line 134: the loop has ended and the permutations are returned.
EPReturn ==
    /\ pc = "loop" /\ ~epRunning(ep)
    /\ pc' = "returned"
    /\ UNCHANGED ep /\ EPOther

NextPerm == EPComplete \/ EPExhausted \/ EPSkip \/ EPAdvance \/ EPReturn

SpecPerm == InitPerm /\ [][NextPerm]_vars /\ WF_vars(NextPerm)

\* The vectors the enumerator is to return for a matrix: the permutations p of
\* {0..n-1} with matrix[i][p(i)] = 1 for every row i (p(i) is p[i + 1]).
ValidPermutations(matrix) ==
    LET n == Cardinality(DOMAIN matrix)
    IN  {p \in [1..n -> 0..(n - 1)] :
            /\ \A i, j \in 1..n : p[i] = p[j] => i = j
            /\ \A i \in 1..n : matrix[i - 1][p[i]] = 1}

\* The number of sequences of k distinct numbers out of n.
RECURSIVE Arrangements(_, _)
Arrangements(n, k) == IF k = 0 THEN 1 ELSE (n - k + 1) * Arrangements(n, k - 1)

RECURSIVE SumArrangements(_, _)
SumArrangements(n, k) ==
    IF k < 0 THEN 0 ELSE Arrangements(n, k) + SumArrangements(n, k - 1)

\* A bound on the loop bodies one call can run on an n x n matrix: a row of
\* possibilities is pushed once for each partial permutation of fewer than n
\* numbers, a pushed row is looked at once per column and once when empty, and
\* each complete permutation is recorded once.
IterationBound(n) == (n + 1) * SumArrangements(n, n - 1) + Arrangements(n, n)

\* C9: on every n x n 0/1 matrix with n >= 1 extractPermutations terminates
\* (its loop runs at most IterationBound(n) times), and what it returns holds
\* every permutation p of {0..n-1} with M[i][p(i)] = 1 for all i exactly once
\* and nothing else (so nothing at all when some row of M has no 1).
C9_ExtractPermutationsExact ==
    /\ pc \in {"loop", "returned"}
    /\ ep.iterations <= IterationBound(Cardinality(DOMAIN permutationMatrix))
    /\ pc = "returned" =>
            /\ Range(ep.permutations) = ValidPermutations(permutationMatrix)
            /\ Len(ep.permutations) = Cardinality(ValidPermutations(permutationMatrix))

\* A 3 x 3 matrix that has two or more valid permutations, none of them the
\* identity, has been enumerated after backtracking.
C9_Witness ==
    /\ pc = "returned"
    /\ Cardinality(DOMAIN permutationMatrix) = 3
    /\ Len(ep.permutations) >= 2
    /\ permutationMatrix[0][0] = 0

----------------------------------------------------------------------------
(* The oracle called on every ordered pair of clauses of a bounded family,  *)
(* first as (left, right) and then as (right, left).                        *)

MaxBody == 2

OracleHeads ==
    {Atom(n, a) : n \in {"A", "B"},
                  a \in {<<Var("x"), Var("y")>>, <<Var("x"), Var("x")>>}}

OracleLiterals ==
    {Atom("P", <<Var("x"), Var("y")>>),
     Atom("P", <<Var("y"), Var("x")>>),
     Atom("P", <<Nil, Num("1")>>),
     Atom("P", <<Var("x"), Num("1")>>),
     Atom("P", <<Nil, Str("1")>>),
     Atom("Q", <<Var("x"), Var("y")>>),
     Negation("P", <<Var("x"), Var("y")>>),
     Atom("Q", <<Other("f"), Var("y")>>)}

OracleClauses ==
    {Clause(h, b) : h \in OracleHeads, b \in SeqsUpTo(OracleLiterals, MaxBody)}

InitOracle ==
    /\ left \in OracleClauses
    /\ right \in OracleClauses
    /\ result = <<>>
    /\ pc = "call"
    /\ permutationMatrix = Unused /\ ep = Unused
    /\ input = Unused /\ program = Unused /\ ioTypes = Unused
    /\ changed = Unused /\ calls = Unused

OracleOther == UNCHANGED <<permutationMatrix, ep, left, right, input, program,
                           ioTypes, changed, calls>>

\* areBijectivelyEquivalent(left, right) is called and returns.
CallOracle ==
    /\ pc = "call"
    /\ result' = Append(result, areBijectivelyEquivalent(left, right))
    /\ pc' = "swapped"
    /\ OracleOther

\* areBijectivelyEquivalent(right, left) is called and returns.
CallOracleSwapped ==
    /\ pc = "swapped"
    /\ result' = Append(result, areBijectivelyEquivalent(right, left))
    /\ pc' = "returned"
    /\ OracleOther

NextOracle == CallOracle \/ CallOracleSwapped

SpecOracle == InitOracle /\ [][NextOracle]_vars

\* The bijections from S onto T.
Bijections(S, T) ==
    {f \in [S -> T] : /\ \A a, b \in S : f[a] = f[b] => a = b
                      /\ \A t \in T : \E a \in S : f[a] = t}

\* Atom a and atom b are identical under the variable renaming f: the same
\* qualified name, the same number of arguments, variables related by f and
\* constants equal in kind and value.
AtomsIdentical(a, b, f) ==
    /\ a.kind = "atom" /\ b.kind = "atom"
    /\ a.name = b.name
    /\ Len(a.args) = Len(b.args)
    /\ \A j \in DOMAIN a.args :
          \/ /\ isVariable(a.args[j]) /\ isVariable(b.args[j])
             /\ f[a.args[j].val] = b.args[j].val
          \/ /\ isConstant(a.args[j]) /\ a.args[j] = b.args[j]

\* There are a permutation of r's body atoms and a bijection between the
\* variable names of l and of r under which heads and bodies are identical
\* position by position.
BijectivelyIdentical(l, r) ==
    /\ Len(l.body) = Len(r.body)
    /\ \E f \in Bijections(variableNames(l), variableNames(r)) :
       \E p \in Orders(Len(r.body)) :
          /\ AtomsIdentical(l.head, r.head, f)
          /\ \A k \in DOMAIN l.body : AtomsIdentical(l.body[k], r.body[p[k]], f)

\* C1: for any two clauses L and R, areBijectivelyEquivalent(L, R) is true
\* exactly when some permutation of R's body atoms and some bijection between
\* the variable names of L and of R make the head atoms and the body atoms
\* identical position by position: same qualified name, variables related by
\* the bijection, constants equal in kind and value.  The statement is taken
\* on the pairs whose heads name the same relation, where the entry of line
\* 311 for the two heads, which is 1 whatever the head names, plays no part.
C1_OracleIffBijectivelyIdentical ==
    (pc # "call" /\ left.head.name = right.head.name)
        => (result[1] = BijectivelyIdentical(left, right))

\* C3: on clauses that pass the admissibility precheck the oracle gives the
\* same answer for (L, R) and for (R, L).
C3_OracleSymmetric ==
    (pc = "returned" /\ isValidClause(left) /\ isValidClause(right))
        => (result[1] = result[2])

----------------------------------------------------------------------------
(* areBijectivelyEquivalent run step by step on a pair of clauses: the      *)
(* prechecks, then one call of isValidPermutation for each permutation the  *)
(* enumerator produced, until one is accepted.                              *)

EquivOther == UNCHANGED <<ep, left, right, program, ioTypes, changed>>

InitEquiv(lefts, rights) ==
    /\ left \in lefts
    /\ right \in rights
    /\ pc = "precheck"
    /\ permutationMatrix = Unused
    /\ input = <<>>
    /\ calls = <<>>
    /\ result = Unused
    /\ ep = Unused /\ program = Unused /\ ioTypes = Unused /\ changed = Unused

\* lines 279-300: the four tests a pair passes before the matrix is built.
passesPrechecks(l, r) ==
    /\ isValidClause(l) /\ isValidClause(r)
    /\ Len(l.body) = Len(r.body)
    /\ Len(l.head.args) = Len(r.head.args)
    /\ Cardinality(variableNames(l)) = Cardinality(variableNames(r))

\* lines 279-300: one of the four prechecks fails and the oracle returns false.
EquivPrecheckFails ==
    /\ pc = "precheck"
    /\ ~passesPrechecks(left, right)
    /\ result' = FALSE
    /\ pc' = "returned"
    /\ UNCHANGED <<permutationMatrix, input, calls>>
    /\ EquivOther

\* lines 279-321: the prechecks pass, the matrix is built and the enumerator
\* returns its permutations.
EquivExtractPermutations ==
    /\ pc = "precheck"
    /\ passesPrechecks(left, right)
    /\ permutationMatrix' = permutationMatrixOf(left, right)
    /\ input' = extractPermutations(permutationMatrixOf(left, right))
    /\ pc' = "permutations"
    /\ UNCHANGED <<calls, result>>
    /\ EquivOther

\* The record kept of one call of isValidPermutation: the permutation given,
\* the reordered clone built (line 190) and what the loop of lines 208-246
\* leaves in variableMap and validMapping.
CheckerCall(l, r, permutation) ==
    [permutation   |-> permutation,
     reorderedLeft |-> reorderedLeftOf(l, permutation),
     variableMap   |-> variableMapping(l, r, permutation).variableMap,
     validMapping  |-> isValidPermutation(l, r, permutation)]

\* lines 322-328: the next permutation is handed to isValidPermutation; the
\* oracle returns true if it is accepted and goes on otherwise.
EquivIsValidPermutation ==
    /\ pc = "permutations"
    /\ Len(calls) < Len(input)
    /\ LET call == CheckerCall(left, right, input[Len(calls) + 1])
       IN  /\ calls' = Append(calls, call)
           /\ IF call.validMapping
              THEN result' = TRUE /\ pc' = "returned"
              ELSE UNCHANGED <<result, pc>>
    /\ UNCHANGED <<permutationMatrix, input>>
    /\ EquivOther

\* line 330: no permutation was accepted.
EquivNoPermutation ==
    /\ pc = "permutations"
    /\ Len(calls) = Len(input)
    /\ result' = FALSE
    /\ pc' = "returned"
    /\ UNCHANGED <<permutationMatrix, input, calls>>
    /\ EquivOther

NextEquiv ==
    \/ EquivPrecheckFails
    \/ EquivExtractPermutations
    \/ EquivIsValidPermutation
    \/ EquivNoPermutation

----------------------------------------------------------------------------
(* The Variable Mapping Checker on clauses with constants. *)

MaxCheckerBody == 2

CheckerHeads ==
    {Atom("A", <<Var("x"), Var("y")>>),
     Atom("A", <<Var("x"), Var("x")>>),
     Atom("A", <<Var("x")>>)}

CheckerLiterals ==
    {Atom("P", <<Nil, Num("1")>>),
     Atom("P", <<Var("y"), Num("1")>>),
     Atom("P", <<Num("1"), Nil>>),
     Atom("P", <<Nil, Nil>>),
     Atom("P", <<Nil, Str("1")>>),
     Atom("P", <<Var("x"), Var("y")>>),
     Atom("Q", <<Var("x"), Var("y")>>),
     Negation("P", <<Var("x"), Var("y")>>)}

CheckerClauses ==
    {Clause(h, b) : h \in CheckerHeads, b \in SeqsUpTo(CheckerLiterals, MaxCheckerBody)}

InitChecker == InitEquiv(CheckerClauses, CheckerClauses)

SpecChecker == InitChecker /\ [][NextEquiv]_vars

\* The atoms the checker walks in lockstep: body first, then head (lines
\* 198-204).
lockstepAtoms(clause) == Append(clause.body, clause.head)

\* The pair of arguments agrees: two variables related by the map, or two
\* constants of the same kind and value (two Nil constants included).
ArgumentsAgree(leftArg, rightArg, variableMap) ==
    \/ /\ isVariable(leftArg) /\ isVariable(rightArg)
       /\ variableMap[leftArg.val] = rightArg.val
    \/ /\ isConstant(leftArg) /\ leftArg = rightArg

\* C11: in the Variable Mapping Checker a mismatch at any argument position
\* makes the result false whatever the later argument pairs are: whenever
\* isValidPermutation answers true, every pair of arguments compared in
\* lockstep agrees; a Nil constant on the left against anything but a Nil
\* constant on the right is such a mismatch.
C11_AnyMismatchGivesFalse ==
    \A k \in DOMAIN calls :
        calls[k].validMapping =>
            \A i \in DOMAIN lockstepAtoms(right) :
                LET leftArgs  == lockstepAtoms(calls[k].reorderedLeft)[i].args
                    rightArgs == lockstepAtoms(right)[i].args
                IN  \A j \in DOMAIN leftArgs :
                        ArgumentsAgree(leftArgs[j], rightArgs[j], calls[k].variableMap)

\* C12: whenever the oracle returns true, the variable map of the accepted
\* permutation is a bijection from the variable names of L onto those of R:
\* defined on every variable of L, no two variables of L with the same image,
\* every variable of R an image.
C12_AcceptedMappingIsBijection ==
    (pc = "returned" /\ result = TRUE) =>
        LET variableMap == calls[Len(calls)].variableMap
        IN  /\ DOMAIN variableMap = variableNames(left)
            /\ \A v \in DOMAIN variableMap : variableMap[v] \in variableNames(right)
            /\ \A v, w \in DOMAIN variableMap :
                  variableMap[v] = variableMap[w] => v = w
            /\ \A t \in variableNames(right) :
                  \E v \in DOMAIN variableMap : variableMap[v] = t

----------------------------------------------------------------------------
(* The reordered clone on clauses with bodies long enough for permutations  *)
(* that are not their own inverse.                                          *)

MaxReorderBody == 3

ReorderLiterals ==
    {Atom("P", <<Var("x"), Var("y")>>),
     Atom("P", <<Var("y"), Var("x")>>),
     Atom("Q", <<Var("x"), Var("y")>>)}

ReorderClauses ==
    {Clause(Atom("A", <<Var("x"), Var("y")>>), b) :
        b \in SeqsUpTo(ReorderLiterals, MaxReorderBody)}

InitReorder == InitEquiv(ReorderClauses, ReorderClauses)

SpecReorder == InitReorder /\ [][NextEquiv]_vars

\* The body atoms of the clone have, position for position, the qualified
\* names of the body atoms of the right clause.
NamesInLockstep(call) ==
    \A i \in DOMAIN right.body :
        call.reorderedLeft.body[i].name = right.body[i].name

\* C13 as stated: for every permutation p the enumerator produced, the clone
\* has at body position k the body atom of L at position p(k+1)-1, and its
\* body atoms have the names of the atoms of R they are compared with.
\* (Position k, counted from 0, is index k+1 of the body and p(k+1) is
\* permutation[k+2].)
C13_CloneHasAtomOfPermutedPosition ==
    \A c \in DOMAIN calls :
        /\ \A i \in DOMAIN left.body :
              calls[c].reorderedLeft.body[i] = left.body[calls[c].permutation[i + 1]]
        /\ NamesInLockstep(calls[c])

\* C13 amended: for every permutation p the enumerator produced, the clone
\* has at body position p(k+1)-1 the body atom of L at position k, that is,
\* L reordered by the inverse of p; its head is the head of L and its body
\* atoms have the names of the atoms of R they are compared with.
C13_CloneHasAtomAtPermutedPosition ==
    \A c \in DOMAIN calls :
        /\ \A i \in DOMAIN left.body :
              calls[c].reorderedLeft.body[calls[c].permutation[i + 1]] = left.body[i]
        /\ Len(calls[c].reorderedLeft.body) = Len(left.body)
        /\ calls[c].reorderedLeft.head = left.head
        /\ NamesInLockstep(calls[c])

\* The checker was given a permutation that is not its own inverse, and the
\* clone differs from L reordered by the permutation itself.
C13_Witness ==
    \E c \in DOMAIN calls :
        /\ \E i \in DOMAIN left.body :
              calls[c].permutation[calls[c].permutation[i + 1] + 1] # i
        /\ calls[c].reorderedLeft.body #
              [i \in DOMAIN left.body |-> left.body[calls[c].permutation[i + 1]]]

====
